---- MODULE Spec2Model ----
(***************************************************************************)
(* Model of generate-installer.py: the prerequisite checks, the three      *)
(* build stages, the installer assembly and the cleanup, run repeatedly    *)
(* over one persistent root build directory.                               *)
(*                                                                         *)
(* The filesystem under <cwd>/spirv-installer is a function from the       *)
(* paths the script touches to the number of the run that created the      *)
(* entry (0: the entry does not exist).  Every external command is an      *)
(* input whose outcome (success or failure) is chosen freely.              *)
(***************************************************************************)
EXTENDS Integers, Sequences, FiniteSets, TLC

\* Number of successive runs of the script that are explored.
MaxRuns == 3

\* Number of createWrapper calls explored when the function is run on its own.
MaxCalls == 3

VARIABLES
    platform,            \* platform.system(), fixed for the life of the model
    fs,                  \* the filesystem under rootDir: path -> creating run, 0 = absent
    run,                 \* number of the current run (0 before the first)
    pc,                  \* position of the script
    step,                \* index of the next command of buildFromSource
    keepFiles,           \* args.keep_files
    packageOnly,         \* args.package_only
    previousFilesExist,  \* the module-level variable of that name
    fsAtStart,           \* history: fs when the current run started
    trace,               \* history: the operations performed by the current run
    exitStatus,          \* process exit status of the run (-1 while running)
    compilerEnv,         \* history: the compiler cmake selected and how it takes the probe
    files,               \* the wrapper scripts: location -> content and permission bits
    wcall                \* history: the latest createWrapper call made on its own

vars == << platform, fs, run, pc, step, keepFiles, packageOnly,
           previousFilesExist, fsAtStart, trace, exitStatus, compilerEnv,
           files, wcall >>

Platforms == {"Windows", "Linux", "Darwin"}

IsWindows(p) == p = "Windows"

(***************************************************************************)
(* Paths, relative to os.getcwd().  BINEXT and WRAPEXT are left out of the *)
(* names: "built/bin/clang" is built/bin/clang.exe under Windows.          *)
(***************************************************************************)
rootDir == "spirv-installer"

ToolBinaries == {"spirv-as", "spirv-cfg", "spirv-dis", "spirv-opt", "spirv-val"}

BuiltBin(b) ==
    CASE b = "clang"     -> "built/bin/clang"
      [] b = "clang-3.6" -> "built/bin/clang-3.6"
      [] b = "spirv-as"  -> "built/bin/spirv-as"
      [] b = "spirv-cfg" -> "built/bin/spirv-cfg"
      [] b = "spirv-dis" -> "built/bin/spirv-dis"
      [] b = "spirv-opt" -> "built/bin/spirv-opt"
      [] b = "spirv-val" -> "built/bin/spirv-val"

StagedBin(b) ==
    CASE b = "spirv-clang" -> "installer/spirv/1.1/bin/spirv-clang"
      [] b = "spirv-as"    -> "installer/spirv/1.1/bin/spirv-as"
      [] b = "spirv-cfg"   -> "installer/spirv/1.1/bin/spirv-cfg"
      [] b = "spirv-dis"   -> "installer/spirv/1.1/bin/spirv-dis"
      [] b = "spirv-opt"   -> "installer/spirv/1.1/bin/spirv-opt"
      [] b = "spirv-val"   -> "installer/spirv/1.1/bin/spirv-val"

WrapperPath(w) ==
    CASE w = "spirv-cc"    -> "installer/wrappers/spirv-cc"
      [] w = "spirv-c++"   -> "installer/wrappers/spirv-c++"
      [] w = "spirv-clang" -> "installer/wrappers/spirv-clang"
      [] w = "spirv-as"    -> "installer/wrappers/spirv-as"
      [] w = "spirv-cfg"   -> "installer/wrappers/spirv-cfg"
      [] w = "spirv-dis"   -> "installer/wrappers/spirv-dis"
      [] w = "spirv-opt"   -> "installer/wrappers/spirv-opt"
      [] w = "spirv-val"   -> "installer/wrappers/spirv-val"

\* The directory trees the four rmtree calls of cleanupFiles delete.
LlvmSrcTree  == {"llvm-src", "llvm-src/tools/clang", "llvm-src/build"}
LibclcxxTree == {"libclcxx", "libclcxx/test/CMakeLists.txt"}
ToolsSrcTree == {"tools-src", "tools-src/external/spirv-headers", "tools-src/build"}
BuiltTree    == {"built", "built/include/openclc++", "built/lib/clang"}
                    \cup {BuiltBin(b) : b \in ToolBinaries \cup {"clang", "clang-3.6"}}

\* Everything under installerDir, the staging tree of createInstaller.
StagingDirs == {"installer", "installer/wrappers", "installer/spirv/1.1/bin",
                "installer/spirv/1.1/include", "installer/spirv/1.1/lib"}

PackageFiles == {"installer/spirv-toolchain-linux.zip",
                 "installer/spirv-toolchain-macOS.zip",
                 "installer/spirv-toolchain-setup.exe"}

InstallerTree ==
    StagingDirs
        \cup {StagedBin(b) : b \in ToolBinaries \cup {"spirv-clang"}}
        \cup {"installer/spirv/1.1/include/openclc++", "installer/spirv/1.1/lib/clang"}
        \cup {WrapperPath(w) : w \in ToolBinaries \cup {"spirv-cc", "spirv-c++", "spirv-clang"}}
        \cup {"installer/install.nsi", "installer/install.sh"}
        \cup PackageFiles

Paths == {rootDir} \cup LlvmSrcTree \cup LibclcxxTree \cup ToolsSrcTree
             \cup BuiltTree \cup InstallerTree

(***************************************************************************)
(* Filesystem primitives.                                                  *)
(***************************************************************************)
\* Entries of the set ps are created (or overwritten) by run r.
Write(f, ps, r) == [p \in Paths |-> IF p \in ps THEN r ELSE f[p]]

\* shutil.rmtree of a tree whose entries are ps.
RmTree(f, ps) == [p \in Paths |-> IF p \in ps THEN 0 ELSE f[p]]

\* makeDirs: os.makedirs(d, exist_ok=True) keeps a directory that exists.
makeDirs(f, ds, r) == [p \in Paths |-> IF p \in ds /\ f[p] = 0 THEN r ELSE f[p]]

\* os.path.exists follows symbolic links: outside Windows built/bin/clang
\* is installed as a link to clang-3.6 and a dangling link does not exist.
PathExists(f, p, plat) ==
    IF p = "built/bin/clang" /\ ~IsWindows(plat)
    THEN f["built/bin/clang"] # 0 /\ f["built/bin/clang-3.6"] # 0
    ELSE f[p] # 0

\* One entry of the history of a run.
Ev(op, stage, kind, ok) == [op |-> op, stage |-> stage, kind |-> kind, ok |-> ok]

\* sys.exit(1), or the interpreter ending on an uncaught exception.
ExitFailure == 1
ExitSuccess == 0
Running     == -1

\* No compiler has been examined by the current run.
NoCompiler == [kind |-> "none", probe |-> "none"]

\* A wrapper location without a file, and the staging tree without wrappers.
NoFile == [exists |-> FALSE, content |-> << >>, mode |-> {}]

WrapperLocations ==
    {WrapperPath(w) : w \in ToolBinaries \cup {"spirv-cc", "spirv-c++", "spirv-clang"}}

NoFiles == [l \in WrapperLocations |-> NoFile]

\* No createWrapper call has been made on its own.
NoCall == [n |-> 0, loc |-> "", target |-> << >>, args |-> << >>,
           count |-> 0, first |-> NoFile]

Init ==
    /\ compilerEnv = NoCompiler
    /\ files = NoFiles
    /\ wcall = NoCall
    /\ platform \in Platforms
    /\ fs = [p \in Paths |-> 0]
    /\ run = 0
    /\ pc = "idle"
    /\ step = 1
    /\ keepFiles = FALSE
    /\ packageOnly = FALSE
    /\ previousFilesExist = FALSE
    /\ fsAtStart = [p \in Paths |-> 0]
    /\ trace = << >>
    /\ exitStatus = Running

(***************************************************************************)
(* Lines 244-255: argument parsing and the resume decision.                *)
(***************************************************************************)
MarkerPath == "built/bin/clang"

\* Variant: the marker probe is ignored, --package-only always skips the build.
BuildSelectedIgnoringMarker(package_only, previousFiles) ==
    package_only = FALSE

BuildSelected(package_only, previousFiles) ==
    package_only = FALSE \/ previousFiles = FALSE

\* Variant: the build is entered without checkBuildPrerequisites.
FirstPhaseWithoutChecks(build) ==
    IF build THEN "buildFromSource" ELSE "checkInstallerPrerequisites"

\* Lines 255-260: the build phase starts with checkBuildPrerequisites; when
\* it is skipped the script goes straight to checkInstallerPrerequisites.
FirstPhase(build) ==
    IF build THEN "checkBuildPrerequisites" ELSE "checkInstallerPrerequisites"

StartRun ==
    /\ pc \in {"idle", "exited"}
    /\ run < MaxRuns
    /\ \E keep \in BOOLEAN, only \in BOOLEAN :
        LET prev == PathExists(fs, MarkerPath, platform) IN
        /\ keepFiles' = keep
        /\ packageOnly' = only
        /\ previousFilesExist' = prev
        /\ pc' = FirstPhase(BuildSelected(only, prev))
    /\ run' = run + 1
    /\ step' = 1
    /\ fsAtStart' = fs
    /\ trace' = << >>
    /\ exitStatus' = Running
    /\ compilerEnv' = NoCompiler
    /\ UNCHANGED << platform, fs, files, wcall >>

(***************************************************************************)
(* Lines 41-103: the helpers that run external commands.  The outcome of a *)
(* command is an input: the executable is absent (Popen raises), it exits  *)
(* with a non-zero status, or it exits with status zero.                   *)
(***************************************************************************)
ToolOutcomes == {"absent", "nonzero", "zero"}

commandSucceeded(outcome) == IF outcome = "zero" THEN TRUE ELSE FALSE

\* Variant: an unavailable command is reported but the run goes on.
errorIfNotAvailableIgnored(outcome) == FALSE

\* errorIfNotAvailable terminates the run exactly when this is TRUE.
errorIfNotAvailable(outcome) == commandSucceeded(outcome) = FALSE

\* Variant: the result of the probe is read the wrong way round.
doesClangSuffer23381Inverted(outcome) == commandSucceeded(outcome)

\* Lines 86-90: the probe is compiled through commandSucceeded.
doesClangSuffer23381(outcome) == commandSucceeded(outcome) = FALSE

\* Variant: the status of the command is not looked at.
runOrFailUnchecked(rc) == FALSE

\* runOrFail terminates the run exactly when this is TRUE (rc: subprocess.call).
runOrFail(rc) == rc # 0

ReturnCodes == {0, 1}

\* The run ends with the given status after the operations evs.
Exit(status, evs) ==
    /\ pc' = "exited"
    /\ exitStatus' = status
    /\ trace' = trace \o evs

(***************************************************************************)
(* Lines 121-134: checkBuildPrerequisites.  isClang launches the compiler  *)
(* outside any try block: a compiler path that cannot be launched raises.  *)
(***************************************************************************)
CompilerKinds == {"absent", "clang", "other"}

checkBuildPrerequisites ==
    /\ pc = "checkBuildPrerequisites"
    /\ \E git \in ToolOutcomes, cmake \in ToolOutcomes, found \in BOOLEAN,
          compiler \in CompilerKinds, probe \in ToolOutcomes :
        LET eGit   == Ev("errorIfNotAvailable", 0, "git", commandSucceeded(git))
            eCmake == Ev("errorIfNotAvailable", 0, "cmake", commandSucceeded(cmake))
            eCxx   == Ev("cxxCompiler", 0, "cmake", found)
            eIs    == Ev("isClang", 0, compiler, compiler # "absent")
            eProbe == Ev("doesClangSuffer23381", 0, "clang", commandSucceeded(probe))
        IN
        /\ compilerEnv' = IF commandSucceeded(git) /\ commandSucceeded(cmake)
                              /\ found /\ compiler # "absent"
                           THEN [kind |-> compiler, probe |-> probe]
                           ELSE NoCompiler
        /\ IF errorIfNotAvailable(git) THEN Exit(ExitFailure, << eGit >>)
           ELSE IF errorIfNotAvailable(cmake) THEN Exit(ExitFailure, << eGit, eCmake >>)
           ELSE IF ~found THEN Exit(ExitFailure, << eGit, eCmake, eCxx >>)
           ELSE IF compiler = "absent" THEN Exit(ExitFailure, << eGit, eCmake, eCxx, eIs >>)
           ELSE IF compiler = "clang" /\ doesClangSuffer23381(probe)
                THEN Exit(ExitFailure, << eGit, eCmake, eCxx, eIs, eProbe >>)
           ELSE /\ pc' = "buildFromSource"
                /\ exitStatus' = exitStatus
                /\ trace' = trace \o (IF compiler = "clang"
                                      THEN << eGit, eCmake, eCxx, eIs, eProbe >>
                                      ELSE << eGit, eCmake, eCxx, eIs >>)
    /\ UNCHANGED << platform, fs, run, step, keepFiles, packageOnly,
                    previousFilesExist, fsAtStart, files, wcall >>

(***************************************************************************)
(* Lines 136-141: checkInstallerPrerequisites.                             *)
(***************************************************************************)
PackagerTool(plat) == IF IsWindows(plat) THEN "makensis" ELSE "zip"

checkInstallerPrerequisites ==
    /\ pc = "checkInstallerPrerequisites"
    /\ \E packager \in ToolOutcomes :
        LET e == Ev("errorIfNotAvailable", 0, PackagerTool(platform),
                    commandSucceeded(packager))
        IN
        IF errorIfNotAvailable(packager) THEN Exit(ExitFailure, << e >>)
        ELSE /\ pc' = "createInstaller"
             /\ exitStatus' = exitStatus
             /\ trace' = Append(trace, e)
    /\ UNCHANGED << platform, fs, run, step, keepFiles, packageOnly,
                    previousFilesExist, fsAtStart, compilerEnv,
                    files, wcall >>

(***************************************************************************)
(* Lines 144-171: buildFromSource.                                         *)
(***************************************************************************)
\* The fourteen runOrFail commands, in program order.  "made" is what the
\* script itself creates right before the command (os.makedirs,
\* putFileContents); "out" is what the command leaves when it succeeds.
BuildStep(stage, kind, made, out) ==
    [stage |-> stage, kind |-> kind, made |-> made, out |-> out]

\* Variant: the SPIRV-Tools stage is run before the libclcxx stage.
BuildStepsToolsFirst == <<
    BuildStep(1, "checkout",  {}, {"llvm-src"}),
    BuildStep(1, "checkout",  {}, {"llvm-src/tools/clang"}),
    BuildStep(1, "configure", {"llvm-src/build"}, {}),
    BuildStep(1, "compile",   {}, {}),
    BuildStep(1, "install",   {}, {}),
    BuildStep(3, "checkout",  {}, {"tools-src"}),
    BuildStep(3, "checkout",  {}, {"tools-src/external/spirv-headers"}),
    BuildStep(3, "configure", {"tools-src/build"}, {}),
    BuildStep(3, "compile",   {}, {}),
    BuildStep(3, "install",   {}, {}),
    BuildStep(2, "checkout",  {}, {"libclcxx"}),
    BuildStep(2, "configure", {"libclcxx/test/CMakeLists.txt"}, {}),
    BuildStep(2, "compile",   {}, {}),
    BuildStep(2, "install",   {}, {}) >>

BuildSteps == <<
    BuildStep(1, "checkout",  {}, {"llvm-src"}),
    BuildStep(1, "checkout",  {}, {"llvm-src/tools/clang"}),
    BuildStep(1, "configure", {"llvm-src/build"}, {}),
    BuildStep(1, "compile",   {}, {}),
    BuildStep(1, "install",   {}, {}),
    BuildStep(2, "checkout",  {}, {"libclcxx"}),
    BuildStep(2, "configure", {"libclcxx/test/CMakeLists.txt"}, {}),
    BuildStep(2, "compile",   {}, {}),
    BuildStep(2, "install",   {}, {}),
    BuildStep(3, "checkout",  {}, {"tools-src"}),
    BuildStep(3, "checkout",  {}, {"tools-src/external/spirv-headers"}),
    BuildStep(3, "configure", {"tools-src/build"}, {}),
    BuildStep(3, "compile",   {}, {}),
    BuildStep(3, "install",   {}, {}) >>

NumBuildSteps == Len(BuildSteps)

\* Variant: the SPIRV-Tools stage installs straight into the staging tree.
StageInstallsIntoStaging(stage, plat) ==
    CASE stage = 1 -> {"built/bin/clang", "built/lib/clang"}
                        \cup (IF IsWindows(plat) THEN {} ELSE {"built/bin/clang-3.6"})
      [] stage = 2 -> {"built/include/openclc++"}
      [] stage = 3 -> {StagedBin(b) : b \in ToolBinaries}

\* What the install target of a stage puts under -DCMAKE_INSTALL_PREFIX,
\* <rootDir>/built.  Outside Windows clang is installed as clang-3.6 plus
\* the link clang.
StageInstalls(stage, plat) ==
    CASE stage = 1 -> {"built/bin/clang", "built/lib/clang"}
                        \cup (IF IsWindows(plat) THEN {} ELSE {"built/bin/clang-3.6"})
      [] stage = 2 -> {"built/include/openclc++"}
      [] stage = 3 -> {BuiltBin(b) : b \in ToolBinaries}

\* Lines 146-148: os.makedirs without exist_ok raises FileExistsError when
\* the directory exists.
buildFromSourceEnter ==
    /\ pc = "buildFromSource"
    /\ IF fs[rootDir] # 0
       THEN /\ Exit(ExitFailure, << Ev("os.makedirs", 0, rootDir, FALSE) >>)
            /\ fs' = fs
       ELSE /\ fs' = Write(fs, {rootDir, "built"}, run)
            /\ trace' = trace \o << Ev("os.makedirs", 0, rootDir, TRUE),
                                    Ev("os.makedirs", 0, "built", TRUE) >>
            /\ pc' = "runStage"
            /\ exitStatus' = exitStatus
    /\ UNCHANGED << platform, run, step, keepFiles, packageOnly,
                    previousFilesExist, fsAtStart, compilerEnv,
                    files, wcall >>

\* Variant: a failing command removes what the build has produced so far.
AfterFailedStepRolledBack(f, written, r) ==
    RmTree(f, LlvmSrcTree \cup LibclcxxTree \cup ToolsSrcTree \cup BuiltTree)

\* Lines 100-103: runOrFail prints and calls sys.exit(1); what the failed
\* command has written stays, and nothing is deleted.
AfterFailedStep(f, written, r) == Write(f, written, r)

\* Lines 150-171, one runOrFail command and the directory creation or file
\* write right before it.  A command that fails leaves nothing but an
\* install, which may have copied any part of its files before failing.
runStage ==
    /\ pc = "runStage"
    /\ step \in 1..NumBuildSteps
    /\ LET s == BuildSteps[step]
           installs == IF s.kind = "install"
                       THEN StageInstalls(s.stage, platform) ELSE {}
       IN
       \E rc \in ReturnCodes :
        /\ \E part \in SUBSET installs :
            fs' = IF rc = 0
                  THEN Write(fs, s.made \cup s.out \cup installs, run)
                  ELSE AfterFailedStep(fs, s.made \cup part, run)
        /\ IF runOrFail(rc)
           THEN /\ Exit(ExitFailure, << Ev("runOrFail", s.stage, s.kind, rc = 0) >>)
                /\ step' = step
           ELSE /\ trace' = Append(trace, Ev("runOrFail", s.stage, s.kind, rc = 0))
                /\ exitStatus' = exitStatus
                /\ step' = step + 1
                /\ pc' = IF step = NumBuildSteps
                         THEN "checkInstallerPrerequisites" ELSE "runStage"
    /\ UNCHANGED << platform, run, keepFiles, packageOnly,
                    previousFilesExist, fsAtStart, compilerEnv,
                    files, wcall >>

(***************************************************************************)
(* Lines 174-235: createInstaller.                                         *)
(***************************************************************************)
\* Variant: the previous installer tree is kept.
createInstallerResetKeeping(f, r) == makeDirs(f, StagingDirs \cup {rootDir}, r)

\* Lines 176-190: the previous installer tree is removed, then the target
\* directories are created (os.makedirs creates missing parents too).
createInstallerReset(f, r) ==
    makeDirs(IF f["installer"] # 0 THEN RmTree(f, InstallerTree) ELSE f,
             StagingDirs \cup {rootDir}, r)

createInstaller ==
    /\ pc = "createInstaller"
    /\ fs' = createInstallerReset(fs, run)
    /\ files' = IF fs["installer"] # 0 THEN NoFiles ELSE files
    /\ trace' = trace \o (IF fs["installer"] # 0
                          THEN << Ev("rmtree", 0, "installer", TRUE) >> ELSE << >>)
                      \o << Ev("makeDirs", 0, "installer", TRUE) >>
    /\ pc' = "copyArtifacts"
    /\ UNCHANGED << platform, run, step, keepFiles, packageOnly,
                    previousFilesExist, fsAtStart, exitStatus,
                    compilerEnv, wcall >>

\* Line 193.
clangBinary(plat) == IF IsWindows(plat) THEN "clang" ELSE "clang-3.6"

\* Variant: only the clang binary is copied into the staging tree.
ArtifactCopiesClangOnly(plat) == <<
    [op |-> "copy2", src |-> BuiltBin(clangBinary(plat)), dst |-> StagedBin("spirv-clang")] >>

\* Lines 192-203: the eight copies, in program order.
ArtifactCopies(plat) == <<
    [op |-> "copy2", src |-> BuiltBin(clangBinary(plat)), dst |-> StagedBin("spirv-clang")],
    [op |-> "copy2", src |-> BuiltBin("spirv-as"),  dst |-> StagedBin("spirv-as")],
    [op |-> "copy2", src |-> BuiltBin("spirv-cfg"), dst |-> StagedBin("spirv-cfg")],
    [op |-> "copy2", src |-> BuiltBin("spirv-dis"), dst |-> StagedBin("spirv-dis")],
    [op |-> "copy2", src |-> BuiltBin("spirv-opt"), dst |-> StagedBin("spirv-opt")],
    [op |-> "copy2", src |-> BuiltBin("spirv-val"), dst |-> StagedBin("spirv-val")],
    [op |-> "copytree", src |-> "built/include/openclc++",
                        dst |-> "installer/spirv/1.1/include/openclc++"],
    [op |-> "copytree", src |-> "built/lib/clang",
                        dst |-> "installer/spirv/1.1/lib/clang"] >>

\* Variant: a missing source is passed over and the copying goes on.
CopiesDoneIgnoringMissing(f, copies, i) == Len(copies)

\* Number of copies that succeed before the first source that is missing
\* (shutil raises on it and the run ends there).
RECURSIVE CopiesDone(_, _, _)
CopiesDone(f, copies, i) ==
    IF i > Len(copies) THEN Len(copies)
    ELSE IF f[copies[i].src] = 0 THEN i - 1
    ELSE CopiesDone(f, copies, i + 1)

copyArtifacts ==
    /\ pc = "copyArtifacts"
    /\ LET copies == ArtifactCopies(platform)
           n      == CopiesDone(fs, copies, 1)
           done   == [i \in 1..n |-> Ev(copies[i].op, 0, copies[i].dst, fs[copies[i].src] # 0)]
       IN
       /\ fs' = Write(fs, {copies[i].dst : i \in {j \in 1..n : fs[copies[j].src] # 0}}, run)
       /\ IF n < Len(copies)
          THEN Exit(ExitFailure,
                    done \o << Ev(copies[n + 1].op, 0, copies[n + 1].dst, FALSE) >>)
          ELSE /\ trace' = trace \o done
               /\ pc' = "createWrappers"
               /\ exitStatus' = exitStatus
    /\ UNCHANGED << platform, run, step, keepFiles, packageOnly,
                    previousFilesExist, fsAtStart, compilerEnv,
                    files, wcall >>

(***************************************************************************)
(* Lines 16-20, 29-39, 105-119: strings, quoting and createWrapper.  A     *)
(* string is a sequence of atoms; an atom is a run of characters that      *)
(* shlex.quote leaves alone (letters, digits and _ @ % + = : , . / -) or   *)
(* one of the atoms of UnsafeAtoms.                                        *)
(***************************************************************************)
SQ == "'"
DQ == "\""
BS == "\\"
NL == "\n"
SP == " "

UnsafeAtoms == {SP, SQ, DQ, BS, NL, "~", "$@", "%*", "@echo off", "#!/usr/bin/env sh"}

\* str.replace for one atom.
RECURSIVE Replace(_, _, _)
Replace(s, a, r) ==
    IF s = << >> THEN << >>
    ELSE (IF Head(s) = a THEN r ELSE << Head(s) >>) \o Replace(Tail(s), a, r)

\* shlex.quote of the Python library.
shlexQuote(s) ==
    IF s = << >> THEN << SQ, SQ >>
    ELSE IF \A i \in 1..Len(s) : s[i] \notin UnsafeAtoms THEN s
    ELSE << SQ >> \o Replace(s, SQ, << SQ, DQ, SQ, DQ, SQ >>) \o << SQ >>

\* Variant: the result of shlex.quote is returned as it is.
forceQuotesShlexOnly(s, plat) ==
    IF IsWindows(plat) THEN << DQ >> \o s \o << DQ >> ELSE shlexQuote(s)

\* Lines 31-39.
forceQuotes(s, plat) ==
    IF IsWindows(plat) THEN << DQ >> \o s \o << DQ >>
    ELSE LET quoteChar == SQ
             quoted    == shlexQuote(s)
         IN IF SubSeq(quoted, 1, 1) # << quoteChar >>
            THEN << quoteChar >> \o quoted \o << quoteChar >>
            ELSE quoted

\* Lines 5-14.
BINEXT(plat) == IF IsWindows(plat) THEN << ".exe" >> ELSE << >>

\* Permission bits of a file that open() creates (umask 022), and the bits
\* line 119 gives a wrapper.
DefaultMode == {"S_IRUSR", "S_IWUSR", "S_IRGRP", "S_IROTH"}

WrapperMode == {"S_IRUSR", "S_IWUSR", "S_IXUSR", "S_IRGRP", "S_IWGRP", "S_IXGRP",
                "S_IROTH", "S_IXOTH"}

\* Variant: the file is opened for appending.
putFileContentsAppending(fl, filename, data) ==
    [fl EXCEPT ![filename] =
        [exists |-> TRUE, content |-> fl[filename].content \o data,
         mode |-> IF fl[filename].exists THEN fl[filename].mode ELSE DefaultMode]]

\* Lines 17-20: open(filename, 'w') truncates a file that exists and keeps
\* its permission bits.
putFileContents(fl, filename, data) ==
    [fl EXCEPT ![filename] =
        [exists |-> TRUE, content |-> data,
         mode |-> IF fl[filename].exists THEN fl[filename].mode ELSE DefaultMode]]

\* Variant: the permission bits are left as open() created them.
chmodSkipped(fl, filename, mode) == fl

chmod(fl, filename, mode) == [fl EXCEPT ![filename].mode = mode]

\* Lines 106-119.  WRAPEXT is left out of the location, as in the paths.
createWrapper(fl, wrapperLocation, sourceBinary0, binaryArgs, plat) ==
    LET sourceBinary == sourceBinary0 \o BINEXT(plat) IN
    IF IsWindows(plat)
    THEN LET scriptCode == << "@echo off", NL >>
                             \o forceQuotes(Replace(sourceBinary, "/", << BS >>), plat)
                             \o << SP >> \o binaryArgs \o << SP, "%*", NL >>
         IN putFileContents(fl, wrapperLocation, scriptCode)
    ELSE LET scriptCode == << "#!/usr/bin/env sh", NL >>
                             \o forceQuotes(sourceBinary, plat)
                             \o << SP >> \o binaryArgs \o << SP, "$@", NL >>
         IN chmod(putFileContents(fl, wrapperLocation, scriptCode),
                  wrapperLocation, WrapperMode)

\* Lines 206-210.
spirvDirTemplate(plat) ==
    IF IsWindows(plat) THEN << "%", "~", "dp0.", BS, "..", BS, "spirv", BS, "1.1" >>
    ELSE << "__SPIRV_DIR__" >>

libclcxxDirFlag(plat) ==
    LET flag == forceQuotes(<< "-I" >> \o spirvDirTemplate(plat)
                                \o << "/", "include", "/", "openclc++" >>, plat)
    IN IF IsWindows(plat) THEN Replace(flag, "/", << BS >>) ELSE flag

commonCompilerArgs ==
    << "-cc1", SP, "-emit-spirv", SP, "-triple", SP, "spir-unknown-unknown", SP,
       "-x", SP, "cl", SP >>

\* The target of the wrapper of a binary: spirvDirTemplate + '/bin/' + name.
BinTarget(name, plat) == spirvDirTemplate(plat) \o << "/", "bin", "/", name >>

WrapperCall(name, target, args) == [name |-> name, target |-> target, args |-> args]

\* Lines 211-221: the createWrapper calls of createInstaller, in program order.
WrapperCalls(plat) ==
    << WrapperCall("spirv-cc", BinTarget("spirv-clang", plat),
                   commonCompilerArgs \o << "-cl-std=CL2.0", SP, "-include", SP, "opencl.h" >>),
       WrapperCall("spirv-c++", BinTarget("spirv-clang", plat),
                   commonCompilerArgs \o << "-cl-std=c++", SP >> \o libclcxxDirFlag(plat)) >>
      \o (IF IsWindows(plat)
          THEN << WrapperCall("spirv-clang", BinTarget("spirv-clang", plat), << >>),
                  WrapperCall("spirv-as",    BinTarget("spirv-as", plat),    << >>),
                  WrapperCall("spirv-cfg",   BinTarget("spirv-cfg", plat),   << >>),
                  WrapperCall("spirv-dis",   BinTarget("spirv-dis", plat),   << >>),
                  WrapperCall("spirv-opt",   BinTarget("spirv-opt", plat),   << >>),
                  WrapperCall("spirv-val",   BinTarget("spirv-val", plat),   << >>) >>
          ELSE << >>)

\* The calls of a sequence applied one after the other.
RECURSIVE createWrapperAll(_, _, _)
createWrapperAll(fl, calls, plat) ==
    IF calls = << >> THEN fl
    ELSE createWrapperAll(
             createWrapper(fl, WrapperPath(Head(calls).name), Head(calls).target,
                           Head(calls).args, plat),
             Tail(calls), plat)

\* Lines 205-221: spirv-cc and spirv-c++ everywhere, one more wrapper per
\* binary under Windows.
Wrappers(plat) ==
    {"spirv-cc", "spirv-c++"}
        \cup (IF IsWindows(plat) THEN ToolBinaries \cup {"spirv-clang"} ELSE {})

createWrappers ==
    /\ pc = "createWrappers"
    /\ fs' = Write(fs, {WrapperPath(w) : w \in Wrappers(platform)}, run)
    /\ files' = createWrapperAll(files, WrapperCalls(platform), platform)
    /\ trace' = Append(trace, Ev("createWrapper", 0, "wrappers", TRUE))
    /\ pc' = "generatePackage"
    /\ UNCHANGED << platform, run, step, keepFiles, packageOnly,
                    previousFilesExist, fsAtStart, exitStatus,
                    compilerEnv, wcall >>

\* Lines 223-232.  The file that NSIS writes is named by install-windows.nsi,
\* which the script does not show; it is given a fixed name here.
InstallerScript(plat) ==
    IF IsWindows(plat) THEN "installer/install.nsi" ELSE "installer/install.sh"

PackageFile(plat) ==
    CASE plat = "Windows" -> "installer/spirv-toolchain-setup.exe"
      [] plat = "Darwin"  -> "installer/spirv-toolchain-macOS.zip"
      [] OTHER            -> "installer/spirv-toolchain-linux.zip"

\* The script template is copied in, then the packager runs; a packager
\* that fails leaves no package file.
generatePackage ==
    /\ pc = "generatePackage"
    /\ \E rc \in ReturnCodes :
        LET copied == Ev("copy2", 0, InstallerScript(platform), TRUE)
            ran    == Ev("runOrFail", 0, "package", rc = 0)
        IN
        /\ fs' = Write(fs, {InstallerScript(platform)}
                             \cup (IF rc = 0 THEN {PackageFile(platform)} ELSE {}), run)
        /\ IF runOrFail(rc)
           THEN Exit(ExitFailure, << copied, ran >>)
           ELSE /\ trace' = trace \o << copied, ran >>
                /\ pc' = "cleanup"
                /\ exitStatus' = exitStatus
    /\ UNCHANGED << platform, run, step, keepFiles, packageOnly,
                    previousFilesExist, fsAtStart, compilerEnv,
                    files, wcall >>

(***************************************************************************)
(* Lines 237-242 and 263-265: cleanupFiles and the end of the script.      *)
(***************************************************************************)
\* Variant: the shared install prefix is not deleted.
CleanupTreesKeepingBuilt == << LlvmSrcTree, LibclcxxTree, ToolsSrcTree, {} >>

\* The four trees, in the order the rmtree calls delete them.
CleanupTrees == << LlvmSrcTree, LibclcxxTree, ToolsSrcTree, BuiltTree >>
CleanupDirs  == << "llvm-src", "libclcxx", "tools-src", "built" >>

\* Number of rmtree calls that succeed: rmtree raises on a missing directory.
RECURSIVE RmTreesDone(_, _)
RmTreesDone(f, i) ==
    IF i > Len(CleanupDirs) THEN Len(CleanupDirs)
    ELSE IF f[CleanupDirs[i]] = 0 THEN i - 1
    ELSE RmTreesDone(f, i + 1)

cleanupFiles ==
    /\ pc = "cleanup"
    /\ keepFiles = FALSE
    /\ LET n    == RmTreesDone(fs, 1)
           gone == UNION {CleanupTrees[i] : i \in 1..n}
           done == [i \in 1..n |-> Ev("rmtree", 0, CleanupDirs[i], fs[CleanupDirs[i]] # 0)]
       IN
       /\ fs' = RmTree(fs, gone)
       /\ IF n < Len(CleanupDirs)
          THEN Exit(ExitFailure, done \o << Ev("rmtree", 0, CleanupDirs[n + 1], FALSE) >>)
          ELSE Exit(ExitSuccess, done)
    /\ UNCHANGED << platform, run, step, keepFiles, packageOnly,
                    previousFilesExist, fsAtStart, compilerEnv,
                    files, wcall >>

\* Line 264 with --keep-files: the script ends without deleting anything.
keepFilesExit ==
    /\ pc = "cleanup"
    /\ keepFiles = TRUE
    /\ Exit(ExitSuccess, << >>)
    /\ UNCHANGED << platform, fs, run, step, keepFiles, packageOnly,
                    previousFilesExist, fsAtStart, compilerEnv,
                    files, wcall >>

Next ==
    \/ StartRun
    \/ checkBuildPrerequisites
    \/ buildFromSourceEnter
    \/ runStage
    \/ checkInstallerPrerequisites
    \/ createInstaller
    \/ copyArtifacts
    \/ createWrappers
    \/ generatePackage
    \/ cleanupFiles
    \/ keepFilesExit

Spec == Init /\ [][Next]_vars

(***************************************************************************)
(* Reading the history of the current run.                                 *)
(***************************************************************************)
IsBuildPrereqEv(e) ==
    \/ e.op = "errorIfNotAvailable" /\ e.kind \in {"git", "cmake"}
    \/ e.op \in {"cxxCompiler", "isClang", "doesClangSuffer23381"}

IsPackagerCheckEv(e) ==
    e.op = "errorIfNotAvailable" /\ e.kind \in {"zip", "makensis"}

IsEnterBuildEv(e) == e.op = "os.makedirs"

IsStageEv(e) == e.op = "runOrFail" /\ e.stage \in 1..3

IsPackagerEv(e) == e.op = "runOrFail" /\ e.stage = 0

\* The operations of createInstaller.
IsAssemblyEv(e) ==
    \/ e.op \in {"makeDirs", "copy2", "copytree", "createWrapper"}
    \/ e.op = "rmtree" /\ e.kind = "installer"
    \/ IsPackagerEv(e)

IsCleanupEv(e) == e.op = "rmtree" /\ e.kind # "installer"

IsExternalEv(e) ==
    e.op \in {"errorIfNotAvailable", "cxxCompiler", "isClang",
              "doesClangSuffer23381", "runOrFail"}

BuildPrereqAt   == {i \in 1..Len(trace) : IsBuildPrereqEv(trace[i])}
PackagerCheckAt == {i \in 1..Len(trace) : IsPackagerCheckEv(trace[i])}
EnterBuildAt    == {i \in 1..Len(trace) : IsEnterBuildEv(trace[i])}
StageAt         == {i \in 1..Len(trace) : IsStageEv(trace[i])}
AssemblyAt      == {i \in 1..Len(trace) : IsAssemblyEv(trace[i])}
CleanupAt       == {i \in 1..Len(trace) : IsCleanupEv(trace[i])}

\* Every index of I is smaller than every index of J.
AllBefore(I, J) == \A i \in I, j \in J : i < j

StageEvents == SelectSeq(trace, IsStageEv)

\* The marker <rootDir>/built/bin/clang existed when the current run started.
MarkerAtStart == PathExists(fsAtStart, MarkerPath, platform)

BuildPcs    == {"checkBuildPrerequisites", "buildFromSource", "runStage"}
AssemblyPcs == {"createInstaller", "copyArtifacts", "createWrappers", "generatePackage"}

(***************************************************************************)
(* C1  Resume decision: the build phase (checkBuildPrerequisites, then     *)
(* buildFromSource) is skipped if and only if --package-only is set and    *)
(* the marker binary existed when the run started; otherwise both are      *)
(* invoked before any packaging step.                                      *)
(***************************************************************************)
BuildPhaseSkipped ==
    /\ pc \notin BuildPcs
    /\ BuildPrereqAt = {} /\ EnterBuildAt = {} /\ StageAt = {}

C1_ResumeDecision ==
    run >= 1 =>
        /\ BuildPhaseSkipped <=> (packageOnly /\ MarkerAtStart)
        /\ (~BuildPhaseSkipped /\ (pc \in AssemblyPcs \/ PackagerCheckAt \cup AssemblyAt # {}))
              => /\ BuildPrereqAt # {} /\ EnterBuildAt # {}
                 /\ AllBefore(BuildPrereqAt, EnterBuildAt)
                 /\ AllBefore(EnterBuildAt, PackagerCheckAt \cup AssemblyAt)

\* A package-only run that found the marker and went straight to packaging.
C1_Witness ==
    /\ packageOnly /\ MarkerAtStart
    /\ pc = "createInstaller" /\ BuildPhaseSkipped

(***************************************************************************)
(* C2  Whenever the build phase is selected, all three build stages are    *)
(* executed, whatever an earlier run left under the root build directory,  *)
(* provided every external tool succeeds.                                  *)
(***************************************************************************)
NoToolFailed == \A i \in 1..Len(trace) : IsExternalEv(trace[i]) => trace[i].ok

AllStagesExecuted ==
    \A st \in 1..3 : \E i \in 1..Len(trace) : trace[i] = Ev("runOrFail", st, "install", TRUE)

C2_BuildAlwaysRuns ==
    (pc = "exited" /\ ~(packageOnly /\ MarkerAtStart) /\ NoToolFailed)
        => AllStagesExecuted

(***************************************************************************)
(* C3  Fail-fast: an external command of a build stage or the packager     *)
(* that returns non-zero ends the run at once with a non-zero exit status, *)
(* nothing is executed after it, and the exit status is zero only when     *)
(* every step of the run succeeded.                                        *)
(***************************************************************************)
C3_FailFast ==
    /\ \A i \in 1..Len(trace) :
          (trace[i].op = "runOrFail" /\ ~trace[i].ok)
              => /\ i = Len(trace)
                 /\ pc = "exited"
                 /\ exitStatus # ExitSuccess
    /\ exitStatus = ExitSuccess
          => /\ pc = "exited"
             /\ \A i \in 1..Len(trace) : trace[i].ok
             /\ \E i \in 1..Len(trace) : trace[i] = Ev("runOrFail", 0, "package", TRUE)

\* A run that was stopped by a failing command of the second stage.
C3_Witness ==
    /\ pc = "exited" /\ exitStatus = ExitFailure
    /\ Len(trace) > 0
    /\ trace[Len(trace)] = Ev("runOrFail", 2, "compile", FALSE)

(***************************************************************************)
(* C4  Stage ordering: the stages run in the order clang, libclcxx,        *)
(* SPIRV-Tools; inside a stage the steps run in the order checkout,        *)
(* configure, compile, install; a stage starts only after the install of   *)
(* the stage before it succeeded, one step at a time.                      *)
(***************************************************************************)
KindRank(k) ==
    CASE k = "checkout"  -> 1
      [] k = "configure" -> 2
      [] k = "compile"   -> 3
      [] k = "install"   -> 4

C4_StageOrdering ==
    LET b == StageEvents IN
    /\ Len(b) > 0 => (b[1].stage = 1 /\ b[1].kind = "checkout")
    /\ \A j \in 1..(Len(b) - 1) :
          /\ b[j].ok
          /\ \/ /\ b[j + 1].stage = b[j].stage
                /\ \/ KindRank(b[j + 1].kind) = KindRank(b[j].kind) + 1
                   \/ b[j].kind = "checkout" /\ b[j + 1].kind = "checkout"
             \/ /\ b[j + 1].stage = b[j].stage + 1
                /\ b[j].kind = "install"
                /\ b[j + 1].kind = "checkout"
    /\ pc = "runStage" => step = Len(b) + 1

\* All three stages have run to the end.
C4_Witness ==
    /\ pc = "checkInstallerPrerequisites"
    /\ Len(StageEvents) = NumBuildSteps
    /\ StageEvents[NumBuildSteps] = Ev("runOrFail", 3, "install", TRUE)

(***************************************************************************)
(* C5  As claimed: every prerequisite check of the run, the installer      *)
(* prerequisite check for the platform packager included, has completed    *)
(* before the first build-stage step starts.                               *)
(***************************************************************************)
C5_AllChecksBeforeBuild ==
    StageAt # {} =>
        /\ BuildPrereqAt # {} /\ PackagerCheckAt # {}
        /\ AllBefore(BuildPrereqAt \cup PackagerCheckAt, StageAt)

\* The check of tool (git, cmake) passed at some point of the run.
ToolChecked(tool) ==
    \E i \in 1..Len(trace) : trace[i] = Ev("errorIfNotAvailable", 0, tool, TRUE)

\* The compiler was identified and, when it is clang, passed the probe.
CompilerChecked ==
    /\ \E i \in 1..Len(trace) : trace[i] = Ev("cxxCompiler", 0, "cmake", TRUE)
    /\ \E i \in 1..Len(trace) :
          /\ trace[i].op = "isClang" /\ trace[i].ok
          /\ trace[i].kind = "clang"
                => (i < Len(trace)
                      /\ trace[i + 1] = Ev("doesClangSuffer23381", 0, "clang", TRUE))

(***************************************************************************)
(* C5 amended: the checks of git, of cmake and of the compiler have        *)
(* completed before the first build-stage step starts; the check of the    *)
(* platform packager runs after the last build-stage step and before       *)
(* createInstaller.                                                        *)
(***************************************************************************)
C5_BuildChecksBeforeBuild ==
    /\ (pc \in {"buildFromSource", "runStage"} \/ EnterBuildAt \cup StageAt # {})
          => /\ ToolChecked("git") /\ ToolChecked("cmake") /\ CompilerChecked
             /\ AllBefore(BuildPrereqAt, EnterBuildAt \cup StageAt)
    /\ PackagerCheckAt # {}
          => /\ AllBefore(StageAt, PackagerCheckAt)
             /\ AllBefore(PackagerCheckAt, AssemblyAt)
             /\ StageAt # {} => /\ Len(StageEvents) = NumBuildSteps
                                /\ \A i \in StageAt : trace[i].ok

\* A run that built everything and then checked for the packager.
C5_Witness ==
    /\ pc = "createInstaller"
    /\ Len(StageEvents) = NumBuildSteps
    /\ PackagerCheckAt # {}

(***************************************************************************)
(* C6  No packaging step runs before its prerequisite check succeeds: on   *)
(* both branches checkInstallerPrerequisites succeeds before the first     *)
(* action of createInstaller; when the packager is unavailable the run     *)
(* ends non-zero and the staging tree is not touched.                      *)
(***************************************************************************)
C6_PackagerCheckedFirst ==
    /\ (pc \in AssemblyPcs \/ AssemblyAt # {})
          => \E i \in PackagerCheckAt :
                trace[i].ok /\ \A j \in AssemblyAt : i < j
    /\ \A i \in PackagerCheckAt :
          ~trace[i].ok
              => /\ pc = "exited" /\ exitStatus # ExitSuccess
                 /\ AssemblyAt = {}
                 /\ \A p \in InstallerTree : fs[p] = fsAtStart[p]

\* The staging tree was reset on the resume branch, after the check.
C6_Witness ==
    /\ BuildPhaseSkipped
    /\ pc = "copyArtifacts"
    /\ fs["installer"] = run

(***************************************************************************)
(* C7  As claimed: every run ends either with status zero and the complete *)
(* package, or non-zero with nothing of this run left under                *)
(* <rootDir>/installer.                                                    *)
(***************************************************************************)
StagedFiles(plat) ==
    StagingDirs
        \cup {StagedBin(b) : b \in ToolBinaries \cup {"spirv-clang"}}
        \cup {"installer/spirv/1.1/include/openclc++", "installer/spirv/1.1/lib/clang"}
        \cup {WrapperPath(w) : w \in Wrappers(plat)}
        \cup {InstallerScript(plat)}

PackageComplete ==
    \A p \in StagedFiles(platform) \cup {PackageFile(platform)} : fs[p] = run

C7_AllOrNothing ==
    pc = "exited" =>
        \/ exitStatus = ExitSuccess /\ PackageComplete
        \/ exitStatus # ExitSuccess /\ \A p \in InstallerTree : fs[p] # run

(***************************************************************************)
(* C7 amended: every run ends either with status zero and the complete     *)
(* package, or non-zero without a package of this run; a run that fails    *)
(* before createInstaller leaves <rootDir>/installer as it was, a run that *)
(* fails inside createInstaller leaves what it had staged so far.          *)
(***************************************************************************)
C7_PackageOrFailure ==
    pc = "exited" =>
        \/ exitStatus = ExitSuccess /\ PackageComplete
        \/ /\ exitStatus # ExitSuccess
           /\ fs[PackageFile(platform)] # run
           /\ AssemblyAt = {} => \A p \in InstallerTree : fs[p] = fsAtStart[p]
           /\ AssemblyAt # {}
                => /\ \A d \in StagingDirs : fs[d] = run
                   /\ \A i \in AssemblyAt :
                         (trace[i].op \in {"copy2", "copytree"} /\ trace[i].ok)
                             => fs[trace[i].kind] = run

\* The packager failed after the whole tree had been staged.
C7_Witness ==
    /\ pc = "exited" /\ exitStatus = ExitFailure
    /\ Len(trace) > 0
    /\ trace[Len(trace)] = Ev("runOrFail", 0, "package", FALSE)
    /\ fs[StagedBin("spirv-val")] = run

(***************************************************************************)
(* C8  The staging tree is rebuilt from scratch: createInstaller removes   *)
(* an installer tree that exists before it writes anything, so once it has *)
(* started every entry under <rootDir>/installer is of the current run.    *)
(***************************************************************************)
C8_StagingRebuilt ==
    /\ (pc \in (AssemblyPcs \ {"createInstaller"}) \cup {"cleanup"} \/ AssemblyAt # {})
          => \A p \in InstallerTree : fs[p] \in {0, run}
    /\ (AssemblyAt # {} /\ fsAtStart["installer"] # 0)
          => \E i \in AssemblyAt :
                /\ trace[i] = Ev("rmtree", 0, "installer", TRUE)
                /\ \A j \in AssemblyAt : i <= j

\* The assembler completed over the complete tree of an earlier run.
C8_Witness ==
    /\ pc = "cleanup"
    /\ fsAtStart["installer"] \in 1..(run - 1)
    /\ fsAtStart[PackageFile(platform)] \in 1..(run - 1)
    /\ PackageComplete

(***************************************************************************)
(* C9  Cleanup: a run that succeeds without --keep-files leaves only the   *)
(* installer tree (with the package) under the root build directory; with  *)
(* --keep-files none of llvm-src, libclcxx, tools-src, built is removed;   *)
(* cleanup never starts before the packager has succeeded.                 *)
(***************************************************************************)
C9_Cleanup ==
    /\ (pc = "exited" /\ exitStatus = ExitSuccess /\ ~keepFiles)
          => /\ \A p \in Paths \ (InstallerTree \cup {rootDir}) : fs[p] = 0
             /\ fs[rootDir] # 0
             /\ PackageComplete
    /\ keepFiles => CleanupAt = {}
    /\ (pc = "exited" /\ exitStatus = ExitSuccess /\ keepFiles)
          => \A p \in {"llvm-src", "libclcxx", "tools-src", "built"} : fs[p] # 0
    /\ CleanupAt # {}
          => \E i \in 1..Len(trace) :
                /\ trace[i] = Ev("runOrFail", 0, "package", TRUE)
                /\ \A j \in CleanupAt : i < j

\* A successful run has deleted the four intermediate directories.
C9_Witness ==
    /\ pc = "exited" /\ exitStatus = ExitSuccess /\ ~keepFiles
    /\ Cardinality(CleanupAt) = 4
    /\ fsAtStart["built"] = 0

(***************************************************************************)
(* C10  Build stages never write into the staging tree: no step of         *)
(* buildFromSource changes anything under <rootDir>/installer, an install  *)
(* step writes only under <rootDir>/built, and entries appear under        *)
(* <rootDir>/installer only in createInstaller.                            *)
(***************************************************************************)
BuildStepFrame ==
    /\ pc \in BuildPcs => \A p \in InstallerTree : fs'[p] = fs[p]
    /\ (pc = "runStage" /\ BuildSteps[step].kind = "install")
          => \A p \in Paths \ BuiltTree : fs'[p] = fs[p]
    /\ (\E p \in InstallerTree : fs[p] = 0 /\ fs'[p] # 0) => pc \in AssemblyPcs

C10_BuildNeverStages == [][BuildStepFrame]_vars

\* The install step of the last stage has written the SPIRV-Tools binaries.
C10_Witness ==
    /\ pc = "checkInstallerPrerequisites"
    /\ \A b \in ToolBinaries : fs[BuiltBin(b)] = run
    /\ \A p \in InstallerTree : fs[p] = 0

(***************************************************************************)
(* C11  No rollback on failure: when a build-stage step fails, everything  *)
(* the steps before it produced (checkouts, build directories, what the    *)
(* earlier stages installed under <rootDir>/built) is still on disk when   *)
(* the process exits, and nothing has been deleted.                        *)
(***************************************************************************)
BuildAborted ==
    /\ pc = "exited"
    /\ Len(trace) > 0
    /\ IsStageEv(trace[Len(trace)]) /\ ~trace[Len(trace)].ok

\* What the first n commands of buildFromSource produce when they succeed.
ProducedBy(n) ==
    {rootDir, "built"}
        \cup UNION {BuildSteps[j].made \cup BuildSteps[j].out : j \in 1..n}
        \cup UNION {StageInstalls(BuildSteps[j].stage, platform) :
                        j \in {k \in 1..n : BuildSteps[k].kind = "install"}}

C11_NoRollback ==
    BuildAborted =>
        /\ CleanupAt = {}
        /\ \A p \in Paths : fsAtStart[p] # 0 => fs[p] # 0
        /\ \A p \in ProducedBy(Len(StageEvents) - 1) : fs[p] = run

\* The third stage failed after the first two had installed their files.
C11_Witness ==
    /\ BuildAborted
    /\ trace[Len(trace)].stage = 3
    /\ fs["built/include/openclc++"] = run

(***************************************************************************)
(* C12  End-to-end success path: with default flags and every external     *)
(* tool succeeding, a run checks the build prerequisites, executes the     *)
(* three stages in order, stages the six binaries and the two library      *)
(* trees, invokes the packager exactly once, deletes the intermediate      *)
(* directories and exits with status 0.                                    *)
(***************************************************************************)
StagedArtifacts ==
    {StagedBin(b) : b \in ToolBinaries \cup {"spirv-clang"}}
        \cup {"installer/spirv/1.1/include/openclc++", "installer/spirv/1.1/lib/clang"}

EndToEndSuccess ==
    /\ exitStatus = ExitSuccess
    /\ ToolChecked("git") /\ ToolChecked("cmake") /\ CompilerChecked
    /\ Len(StageEvents) = NumBuildSteps
    /\ \A j \in 1..NumBuildSteps :
          StageEvents[j] = Ev("runOrFail", BuildSteps[j].stage, BuildSteps[j].kind, TRUE)
    /\ \A p \in StagedArtifacts : fs[p] = run
    /\ Cardinality({i \in 1..Len(trace) : IsPackagerEv(trace[i])}) = 1
    /\ \A p \in LlvmSrcTree \cup LibclcxxTree \cup ToolsSrcTree \cup BuiltTree : fs[p] = 0

C12_EndToEnd ==
    (pc = "exited" /\ ~keepFiles /\ ~packageOnly /\ NoToolFailed) => EndToEndSuccess

(***************************************************************************)
(* C13  Known-defect gate: checkBuildPrerequisites ends the run because of *)
(* the compiler defect if and only if the compiler is clang (its --version *)
(* output has the marker) and the probe fails to compile; the probe result *)
(* is "defect" exactly when the compilation is rejected; a compiler that   *)
(* is not clang is never rejected, whatever it would do with the probe.    *)
(***************************************************************************)
ReachedGate == \E i \in 1..Len(trace) : trace[i].op = "isClang" /\ trace[i].ok

ExitedOnDefect ==
    /\ pc = "exited" /\ exitStatus # ExitSuccess
    /\ Len(trace) > 0
    /\ trace[Len(trace)].op = "doesClangSuffer23381"

C13_DefectGate ==
    ReachedGate =>
        /\ ExitedOnDefect <=> (compilerEnv.kind = "clang" /\ compilerEnv.probe # "zero")
        /\ \A i \in 1..Len(trace) :
              trace[i].op = "doesClangSuffer23381"
                  => (trace[i].ok <=> compilerEnv.probe = "zero")
        /\ compilerEnv.kind = "other"
              => /\ \A i \in 1..Len(trace) : trace[i].op # "doesClangSuffer23381"
                 /\ pc = "buildFromSource" \/ EnterBuildAt # {}

\* clang rejected the probe and the run ended there.
C13_Witness ==
    /\ ExitedOnDefect
    /\ compilerEnv = [kind |-> "clang", probe |-> "nonzero"]

(***************************************************************************)
(* C14  A failed build prerequisite is a hard stop without side effects:   *)
(* when git or cmake is unavailable (absent, not launched or non-zero, all *)
(* alike), the compiler is not identified or the defect is detected, the   *)
(* run ends non-zero before buildFromSource and the filesystem under the   *)
(* root build directory is as it was when the run started.                 *)
(***************************************************************************)
C14_PrereqHardStop ==
    \A i \in BuildPrereqAt :
        ~trace[i].ok
            => /\ i = Len(trace)
               /\ pc = "exited" /\ exitStatus # ExitSuccess
               /\ EnterBuildAt = {} /\ StageAt = {}
               /\ fs = fsAtStart

\* cmake was unavailable in a run over what an earlier run had left.
C14_Witness ==
    /\ pc = "exited" /\ exitStatus = ExitFailure
    /\ Len(trace) = 2
    /\ trace[2] = Ev("errorIfNotAvailable", 0, "cmake", FALSE)
    /\ fsAtStart["built/bin/clang"] # 0

(***************************************************************************)
(* createWrapper on its own: any sequence of at most MaxCalls calls, with  *)
(* the location, the target and the fixed arguments drawn from small sets  *)
(* (an empty string, plain words, a space, a single quote, a slash).       *)
(***************************************************************************)
TestLocations == {WrapperPath("spirv-cc"), WrapperPath("spirv-c++")}

TestStrings == { << >>,
                 << "dir", "/", "tool" >>,
                 << "-a", SP, "-b" >>,
                 << "it", SQ, "s" >> }

InitWrapper ==
    /\ platform \in Platforms
    /\ fs = [p \in Paths |-> 0]
    /\ run = 0
    /\ pc = "createWrapper"
    /\ step = 1
    /\ keepFiles = FALSE
    /\ packageOnly = FALSE
    /\ previousFilesExist = FALSE
    /\ fsAtStart = [p \in Paths |-> 0]
    /\ trace = << >>
    /\ exitStatus = Running
    /\ compilerEnv = NoCompiler
    /\ files = NoFiles
    /\ wcall = NoCall

invokeCreateWrapper ==
    /\ pc = "createWrapper"
    /\ wcall.n < MaxCalls
    /\ \E loc \in TestLocations, target \in TestStrings, args \in TestStrings :
        LET again == /\ wcall.n > 0
                     /\ wcall.loc = loc /\ wcall.target = target /\ wcall.args = args
            fl    == createWrapper(files, loc, target, args, platform)
        IN
        /\ files' = fl
        /\ wcall' = [n |-> wcall.n + 1, loc |-> loc, target |-> target, args |-> args,
                     count |-> IF again THEN wcall.count + 1 ELSE 1,
                     first |-> IF again THEN wcall.first ELSE fl[loc]]
    /\ UNCHANGED << platform, fs, run, pc, step, keepFiles, packageOnly,
                    previousFilesExist, fsAtStart, trace, exitStatus, compilerEnv >>

NextWrapper == invokeCreateWrapper

WrapperSpec == InitWrapper /\ [][NextWrapper]_vars

(***************************************************************************)
(* C15  createWrapper is idempotent: a second call with the same location, *)
(* target and fixed arguments leaves the wrapper file with the content and *)
(* the permission bits the first call produced.                            *)
(***************************************************************************)
C15_Idempotent ==
    wcall.count >= 2 => files[wcall.loc] = wcall.first

\* The same call was repeated over a file that another call had written.
C15_Witness ==
    /\ wcall.count = 2 /\ wcall.n = 3
    /\ wcall.args = << "it", SQ, "s" >>
    /\ files[wcall.loc].exists

(***************************************************************************)
(* C16  On the POSIX family every wrapper file createWrapper has written   *)
(* carries all nine permission bits: read, write and execute for owner,    *)
(* group and other.                                                        *)
(***************************************************************************)
AllPermissionBits ==
    { "S_IRUSR", "S_IWUSR", "S_IXUSR",
      "S_IRGRP", "S_IWGRP", "S_IXGRP",
      "S_IROTH", "S_IWOTH", "S_IXOTH" }

C16_AllNineBits ==
    ~IsWindows(platform) =>
        \A loc \in WrapperLocations :
            files[loc].exists => files[loc].mode = AllPermissionBits

(***************************************************************************)
(* C16 as the code has it: on the POSIX family every wrapper file          *)
(* createWrapper has written carries read, write and execute for owner and *)
(* group and read and execute for other; write for other is not set.       *)
(***************************************************************************)
C16_AllButOtherWrite ==
    ~IsWindows(platform) =>
        \A loc \in WrapperLocations :
            files[loc].exists =>
                files[loc].mode = AllPermissionBits \ { "S_IWOTH" }

\* Both test wrappers exist on a POSIX platform, one of them written twice.
C16_Witness ==
    /\ ~IsWindows(platform)
    /\ \A loc \in TestLocations : files[loc].exists
    /\ wcall.n = 3

(***************************************************************************)
(* The words of a wrapper's command line as the interpreter of the script  *)
(* splits them: a space outside quotes ends a word, a quote character      *)
(* (double under Windows, single or double elsewhere) opens a quoted       *)
(* stretch that lasts to the next occurrence of the same character. Words  *)
(* keep their quote characters.                                            *)
(***************************************************************************)
QuoteChars(plat) == IF IsWindows(plat) THEN {DQ} ELSE {SQ, DQ}

RECURSIVE Lex(_, _, _, _)
Lex(s, q, cur, plat) ==
    IF s = << >> THEN cur
    ELSE LET a    == Head(s)
             word == IF cur = << >> THEN << >> ELSE cur[1]
         IN IF q = "" /\ a = SP THEN cur \o Lex(Tail(s), "", << >>, plat)
            ELSE IF q = "" /\ a \in QuoteChars(plat)
                 THEN Lex(Tail(s), a, << word \o << a >> >>, plat)
            ELSE IF q = a THEN Lex(Tail(s), "", << word \o << a >> >>, plat)
            ELSE Lex(Tail(s), q, << word \o << a >> >>, plat)

\* The command line is what stands between the header line and the final
\* newline of the script.
CommandWords(content, plat) == Lex(SubSeq(content, 3, Len(content) - 1), "", << >>, plat)

PassThrough(plat) == IF IsWindows(plat) THEN << "%*" >> ELSE << "$@" >>

QuotedToken(w, plat) ==
    LET quoteChar == IF IsWindows(plat) THEN DQ ELSE SQ
    IN Len(w) >= 2 /\ w[1] = quoteChar /\ w[Len(w)] = quoteChar

BareWord(w, plat) == \A i \in 1..Len(w) : w[i] \notin {SQ, DQ}

IsIncludeFlag(w) == \E i \in 1..Len(w) : w[i] = "-I"

\* The wrapper files createInstaller has written.
WrittenWrappers == { n \in Wrappers(platform) : files[WrapperPath(n)].exists }

(***************************************************************************)
(* C17  In every wrapper script the target binary path and each fixed      *)
(* argument is a quoted token (double quotes under Windows, single quotes  *)
(* elsewhere); no fixed argument is a bare unquoted word.                  *)
(***************************************************************************)
C17_EveryTokenQuoted ==
    \A n \in WrittenWrappers :
        LET ws == CommandWords(files[WrapperPath(n)].content, platform)
        IN \A k \in 1..(Len(ws) - 1) : QuotedToken(ws[k], platform)

(***************************************************************************)
(* C17 as the code has it: in every wrapper script createInstaller writes, *)
(* the first word is the target binary path as a quoted token, the last is *)
(* the pass-through of the caller's arguments, and the words between are   *)
(* the fixed-argument string as createInstaller passed it: its include     *)
(* path flag (spirv-c++ only) is a quoted token, every other fixed         *)
(* argument is a bare word.                                                *)
(***************************************************************************)
C17_TargetAndIncludeQuoted ==
    \A i \in 1..Len(WrapperCalls(platform)) :
        LET c  == WrapperCalls(platform)[i]
            f  == files[WrapperPath(c.name)]
            ws == CommandWords(f.content, platform)
            n  == Len(ws)
        IN f.exists =>
            /\ n >= 2
            /\ QuotedToken(ws[1], platform)
            /\ ws[n] = PassThrough(platform)
            /\ SubSeq(ws, 2, n - 1) = Lex(c.args, "", << >>, platform)
            /\ \A k \in 2..(n - 1) :
                   IF IsIncludeFlag(ws[k]) THEN QuotedToken(ws[k], platform)
                   ELSE BareWord(ws[k], platform)
            /\ Cardinality({ k \in 2..(n - 1) : IsIncludeFlag(ws[k]) })
                   = (IF c.name = "spirv-c++" THEN 1 ELSE 0)
            /\ c.name \in {"spirv-cc", "spirv-c++"} => n >= 10

\* The wrappers have been written on a platform where shlex.quote leaves the
\* target path unquoted and forceQuotes adds the quotes.
C17_Witness ==
    /\ ~IsWindows(platform)
    /\ pc = "generatePackage"
    /\ WrittenWrappers = {"spirv-cc", "spirv-c++"}
    /\ shlexQuote(BinTarget("spirv-clang", platform)) = BinTarget("spirv-clang", platform)

(***************************************************************************)
(* C18  The resume marker implies a complete prior build: in every         *)
(* filesystem state that runs of the script leave behind, if the marker    *)
(* <rootDir>/built/bin/clang exists then every source of the assembler's   *)
(* copies exists, so a run that skips the build never aborts in the        *)
(* assembler on a missing artifact.                                        *)
(***************************************************************************)
CopySources == { ArtifactCopies(platform)[i].src : i \in 1..Len(ArtifactCopies(platform)) }

CopyAt == { i \in 1..Len(trace) : trace[i].op \in {"copy2", "copytree"} }

C18_MarkerImpliesComplete ==
    /\ (pc \in {"idle", "exited"} /\ PathExists(fs, MarkerPath, platform))
          => \A p \in CopySources : fs[p] # 0
    /\ BuildPhaseSkipped => \A i \in CopyAt : trace[i].ok

(***************************************************************************)
(* C19  Cleanup never fails on a missing directory: over any sequence of   *)
(* runs, whenever cleanupFiles is reached the four directories it deletes  *)
(* (llvm-src, libclcxx, tools-src, built) exist, also in a run that        *)
(* skipped the build, and each of its rmtree calls succeeds.               *)
(***************************************************************************)
C19_CleanupDirsExist ==
    /\ (pc = "cleanup" /\ ~keepFiles)
          => \A p \in {"llvm-src", "libclcxx", "tools-src", "built"} : fs[p] # 0
    /\ \A i \in CleanupAt : trace[i].ok

\* A run that skipped the build has deleted directories an earlier run made.
C19_Witness ==
    /\ pc = "exited" /\ BuildPhaseSkipped
    /\ Cardinality(CleanupAt) = 4
    /\ fsAtStart["llvm-src"] \notin {0, run}

TypeOK ==
    /\ platform \in Platforms
    /\ fs \in [Paths -> 0..MaxRuns]
    /\ run \in 0..MaxRuns
    /\ step \in 1..(NumBuildSteps + 1)
    /\ exitStatus \in {Running, ExitSuccess, ExitFailure}
====
